---- MODULE Spec2Model ----
(***************************************************************************)
(* TikTokData: the audited collection pipeline of Data.py.                 *)
(*                                                                         *)
(* main() builds the components and calls DataCollector.collect_data,      *)
(* which reads the link column, fetches every link through a scratch CSV,  *)
(* accumulates the rows, paces the requests, and then writes the raw       *)
(* table, the outcome summary, the normalized table and the spreadsheet.   *)
(* The run is one sequential thread of control; pc is its position.        *)
(***************************************************************************)
EXTENDS Integers, Sequences, FiniteSets, TLC

\* ------------------------------------------------------------------ bounds
\* Longest link column read from the input sheet.
MaxColumn == 2
\* Scratch paths 1..MaxOrphan may hold a file left by an interrupted run.
MaxOrphan == 1
\* Most frames accumulated into one raw table when the normalizer and the
\* sinks are exercised on their own.
MaxRows == 2

\* ------------------------------------------------------------- link source
\* A cell of the column is a string, modelled as its sequence of parts; the
\* part Domain is the substring 'tiktok.com'.
Domain == "tiktok.com"
LinkA == <<"https://www.", Domain, "/@a/video/1">>
LinkB == <<"https://www.", Domain, "/@b/video/2">>
Blank == <<>>
NotALink == <<"not a link">>
ColumnValues == {LinkA, LinkB, Blank, NotALink}
NoLink == <<"<unset>">>
OldVideo == <<"<earlier run>">>

RECURSIVE SeqsUpTo(_, _)
SeqsUpTo(S, n) ==
    IF n = 0 THEN {<<>>}
    ELSE LET shorter == SeqsUpTo(S, n - 1)
         IN  shorter \cup {Append(s, x) : s \in {t \in shorter : Len(t) = n - 1}, x \in S}

\* 'tiktok.com' in str(link)
ContainsDomain(value) == \E k \in 1..Len(value) : value[k] = Domain

\* FilterLinks keeping only the first occurrence of a link.
RECURSIVE FilterLinks_Dedup(_)
FilterLinks_Dedup(values) ==
    IF values = <<>> THEN <<>>
    ELSE LET rest == FilterLinks_Dedup(SelectSeq(Tail(values), LAMBDA v : v # Head(values)))
         IN  IF ContainsDomain(Head(values)) THEN <<Head(values)>> \o rest ELSE rest

\* [link for link in column_values if 'tiktok.com' in str(link)]
RECURSIVE FilterLinks(_)
FilterLinks(values) ==
    IF values = <<>> THEN <<>>
    ELSE IF ContainsDomain(Head(values))
         THEN <<Head(values)>> \o FilterLinks(Tail(values))
         ELSE FilterLinks(Tail(values))

\* ------------------------------------------------------------ data frames
\* The candidate field names of the scraper's output, in priority order.
ViewCols == <<"video_playcount", "stats_playCount", "play_count">>
AuthorCols == <<"author_username", "author_uniqueId", "author_nickname">>
FollowerCols == <<"author_followercount", "authorStats_followerCount">>
Range(s) == {s[k] : k \in 1..Len(s)}
ScrapeCols == Range(ViewCols) \cup Range(AuthorCols) \cup Range(FollowerCols)

\* The missing-value marker pandas puts in a numeric and in a text column.
NaNNum == 0 - 1
NaNText == "NaN"
IsText(c) == c \in Range(AuthorCols)
Missing(c) == IF IsText(c) THEN NaNText ELSE NaNNum

\* The value the platform reports under field c (distinct per field, so that
\* the resolution order of process_data shows in its output).
Reported(c) ==
    CASE c = "video_playcount" -> 11
      [] c = "stats_playCount" -> 12
      [] c = "play_count" -> 13
      [] c = "author_followercount" -> 21
      [] c = "authorStats_followerCount" -> 22
      [] OTHER -> c

\* The field set the scraper writes in the pipeline runs.
PipelineShape == {"video_playcount", "author_username", "author_followercount"}

\* One row of the scraper's CSV for `video`, carrying the fields of `shape`.
ScrapedRow(video, shape) ==
    [vid |-> video, source_link |-> NoLink, link_index |-> 0,
     f |-> [c \in ScrapeCols |-> IF c \in shape THEN Reported(c) ELSE Missing(c)]]

\* pd.DataFrame()
EmptyFrame == [cols |-> {}, rows |-> <<>>]
\* DataFrame.empty: some axis has length 0
IsEmpty(df) == df.rows = <<>> \/ df.cols = {}

\* df[col] = scalar, for the two stamped columns
StampSource(df, link) ==
    [cols |-> df.cols \cup {"source_link"},
     rows |-> [k \in 1..Len(df.rows) |-> [df.rows[k] EXCEPT !.source_link = link]]]
StampIndex(df, n) ==
    [cols |-> df.cols \cup {"link_index"},
     rows |-> [k \in 1..Len(df.rows) |-> [df.rows[k] EXCEPT !.link_index = n]]]

\* A cell of a column the frame it came from did not have reads as missing.
PadRow(row, cols) ==
    [row EXCEPT !.f = [c \in ScrapeCols |-> IF c \in cols THEN row.f[c] ELSE Missing(c)]]
\* pd.concat([a, b], ignore_index=True)
Concat(a, b) ==
    [cols |-> a.cols \cup b.cols,
     rows |-> [k \in 1..Len(a.rows) |-> PadRow(a.rows[k], a.cols)]
              \o [k \in 1..Len(b.rows) |-> PadRow(b.rows[k], b.cols)]]

\* ----------------------------------------------------------- scratch files
NoFile == [exists |-> FALSE, cols |-> {}, rows |-> <<>>]
FileOf(df) == [exists |-> TRUE, cols |-> df.cols, rows |-> df.rows]
OrphanFile == FileOf([cols |-> PipelineShape, rows |-> <<ScrapedRow(OldVideo, PipelineShape)>>])

\* What pyk.save_tiktok(link, True, output_path) can do to the scratch path.
\*   wrote   the metadata row replaces whatever was at the path
\*   append  the metadata row is added to the CSV already at the path
\*   header  a CSV with a header and no data row is written
\*   nothing returns without writing
\*   raise   raises without writing
ScrapeOutcomes == {"wrote", "append", "header", "nothing", "raise"}
SaveTiktok(link, file, scrape) ==
    LET row == ScrapedRow(link, PipelineShape)
    IN  CASE scrape = "wrote" -> FileOf([cols |-> PipelineShape, rows |-> <<row>>])
          [] scrape = "append" -> FileOf([cols |-> file.cols \cup PipelineShape,
                                          rows |-> Append(file.rows, row)])
          [] scrape = "header" -> FileOf([cols |-> PipelineShape, rows |-> <<>>])
          [] OTHER -> file

\* --------------------------------------------------------------- fetching
\* The try block of TikTokDataFetcher.fetch_data: scrape into the scratch
\* path, read the CSV back, stamp source_link.  raised = an exception left
\* the block.  pd.read_csv raises when the path holds no file, and when the
\* file cannot be read (readOk = FALSE).
TryFetch(link, file, scrape, readOk) ==
    IF scrape = "raise"
    THEN [raised |-> TRUE, data |-> EmptyFrame, file |-> file]
    ELSE LET written == SaveTiktok(link, file, scrape)
         IN  IF ~written.exists \/ ~readOk
             THEN [raised |-> TRUE, data |-> EmptyFrame, file |-> written]
             ELSE [raised |-> FALSE,
                   data |-> StampSource([cols |-> written.cols, rows |-> written.rows], link),
                   file |-> written]

\* fetch_data: the try block, and `except Exception: return pd.DataFrame()`.
FetchData(link, file, scrape, readOk) ==
    LET r == TryFetch(link, file, scrape, readOk)
    IN  IF r.raised
        THEN [raised |-> FALSE, data |-> EmptyFrame, file |-> r.file]
        ELSE r

\* ------------------------------------------------------------ normalizing
\* The first candidate column present in the frame, else the default.
RECURSIVE Resolve(_, _, _, _)
Resolve(df, row, candidates, default) ==
    IF candidates = <<>> THEN default
    ELSE IF Head(candidates) \in df.cols THEN row.f[Head(candidates)]
    ELSE Resolve(df, row, Tail(candidates), default)

\* ProcessData numbering the rows from 0.
ProcessData_FromZero(df) ==
    IF IsEmpty(df) THEN <<>>
    ELSE [k \in 1..Len(df.rows) |->
            [STT |-> k - 1,
             LinkVideo |-> df.rows[k].source_link,
             views |-> Resolve(df, df.rows[k], ViewCols, 0),
             author |-> Resolve(df, df.rows[k], AuthorCols, "Unknown"),
             followers |-> Resolve(df, df.rows[k], FollowerCols, 0)]]

\* TikTokDataProcessor.process_data: the rows of the formatted frame.
ProcessData(df) ==
    IF IsEmpty(df) THEN <<>>
    ELSE [k \in 1..Len(df.rows) |->
            [STT |-> k,
             LinkVideo |-> df.rows[k].source_link,
             views |-> Resolve(df, df.rows[k], ViewCols, 0),
             author |-> Resolve(df, df.rows[k], AuthorCols, "Unknown"),
             followers |-> Resolve(df, df.rows[k], FollowerCols, 0)]]

\* ------------------------------------------------------------------ state
VARIABLES
    pc,             \* position of the run
    column,         \* the values of column K of the input worksheet
    links,          \* collect_data: links
    i,              \* collect_data: the loop index (0-based, as in the code)
    temp_data,      \* collect_data: the frame the current fetch returned
    call,           \* the fetch_data call that produced temp_data
    exc,            \* the exception being handled or propagated ("" = none)
    all_data,       \* collect_data: the cumulative raw frame
    results,        \* collect_data: the outcome list
    scratch,        \* tiktok_data/temp_tiktok_data_<k>.csv, by k
    files,          \* the files written under the output directory
    saved,          \* what csv_storage.save_data last returned
    processed_data, \* collect_data: the formatted rows
    sheet,          \* the remote spreadsheet of this run
    sheet_id,       \* what sheets_storage.save_data returned
    ret,            \* what collect_data returned
    report,         \* the counts main printed
    fetched,        \* history: one entry per fetch_data call
    log             \* history: fetches, removals, waits and sink writes

vars == <<pc, column, links, i, temp_data, call, exc, all_data, results, scratch,
          files, saved, processed_data, sheet, sheet_id, ret, report, fetched, log>>

Paths == 1..MaxColumn
NoCall == [link |-> NoLink, scrape |-> "", readOk |-> FALSE, hadFile |-> FALSE,
           raised |-> FALSE]
FileNames == {"all", "summary", "formatted"}
NotWritten == [exists |-> FALSE, rows |-> <<>>]
NoSheet == [created |-> FALSE, public |-> FALSE, values |-> <<>>]
NoReturn == [returned |-> FALSE, all_data |-> EmptyFrame, results |-> <<>>]
NoReport == [printed |-> FALSE, success |-> 0, total |-> 0]
NoField == "<no field>"
\* A path is the sequence of its parts; "" is the empty sequence.
OutputDir == "tiktok_data"
NoPath == <<>>
NotCalled == <<"<not called>">>

\* The scratch directory at start: clean, or holding one file an interrupted
\* earlier run left behind (paths are named by link index only).
InitialScratch ==
    {[k \in Paths |-> NoFile]}
    \cup {[k \in Paths |-> IF k = o THEN OrphanFile ELSE NoFile] :
            o \in 1..(IF MaxOrphan < MaxColumn THEN MaxOrphan ELSE MaxColumn)}

\* main has built the components and is about to call collect_data.
Init ==
    /\ pc = "get_links"
    /\ column \in SeqsUpTo(ColumnValues, MaxColumn)
    /\ links = <<>>
    /\ i = 0
    /\ temp_data = EmptyFrame
    /\ call = NoCall
    /\ exc = ""
    /\ all_data = EmptyFrame
    /\ results = <<>>
    /\ scratch \in InitialScratch
    /\ files = [n \in FileNames |-> NotWritten]
    /\ saved = NotCalled
    /\ processed_data = <<>>
    /\ sheet = NoSheet
    /\ sheet_id = ""
    /\ ret = NoReturn
    /\ report = NoReport
    /\ fetched = <<>>
    /\ log = <<>>

Event(op, k) == [op |-> op, k |-> k]

\* ------------------------------------------------------------ collect_data
\* GetLinks with a failed lookup swallowed: the run goes on with no links.
GetLinks_Swallow ==
    /\ pc = "get_links"
    /\ \E found \in BOOLEAN :
          IF found
          THEN /\ links' = FilterLinks(column)
               /\ log' = Append(log, Event("get_links", Len(column)))
               /\ exc' = exc
          ELSE /\ links' = <<>>
               /\ log' = log
               /\ exc' = "get_links error"
    /\ pc' = "for"
    /\ column' = <<>>
    /\ UNCHANGED <<saved, i, temp_data, call, all_data, results, scratch, files,
                   processed_data, sheet, sheet_id, ret, report, fetched>>

\* links = self.data_source.get_links(): the sheet lookup may raise, and the
\* error leaves collect_data and main.  The column read is local to get_links
\* and gone when it returns; the log keeps how many cells were read.
GetLinks ==
    /\ pc = "get_links"
    /\ \E found \in BOOLEAN :
          IF found
          THEN /\ links' = FilterLinks(column)
               /\ log' = Append(log, Event("get_links", Len(column)))
               /\ pc' = "for"
               /\ exc' = exc
          ELSE /\ links' = links
               /\ log' = log
               /\ pc' = "crashed"
               /\ exc' = "get_links error"
    /\ column' = <<>>
    /\ UNCHANGED <<saved, i, temp_data, call, all_data, results, scratch, files,
                   processed_data, sheet, sheet_id, ret, report, fetched>>

\* temp_data = self.data_fetcher.fetch_data(link, temp_filename), with the
\* fetcher main wires in (TikTokDataFetcher).
CollectFetch ==
    /\ pc = "for"
    /\ i < Len(links)
    /\ \E scrape \in ScrapeOutcomes, readOk \in BOOLEAN :
          /\ scrape = "append" => scratch[i + 1].exists
          /\ LET link == links[i + 1]
                 r == FetchData(link, scratch[i + 1], scrape, readOk)
             IN  /\ scratch' = [scratch EXCEPT ![i + 1] = r.file]
                 /\ call' = [link |-> link, scrape |-> scrape, readOk |-> readOk,
                             hadFile |-> scratch[i + 1].exists, raised |-> r.raised]
                 /\ log' = Append(log, Event("fetch", i + 1))
                 /\ IF r.raised
                    THEN /\ pc' = "except"
                         /\ exc' = "fetch error"
                         /\ temp_data' = temp_data
                         /\ fetched' = Append(fetched,
                                [link |-> link, status |-> "raised", rows |-> <<>>,
                                 error |-> "fetch error"])
                    ELSE /\ pc' = "record"
                         /\ exc' = exc
                         /\ temp_data' = r.data
                         /\ fetched' = Append(fetched,
                                [link |-> link,
                                 status |-> IF IsEmpty(r.data) THEN "empty" ELSE "rows",
                                 rows |-> r.data.rows, error |-> ""])
    /\ UNCHANGED <<saved, column, links, i, all_data, results, files, processed_data,
                   sheet, sheet_id, ret, report>>

\* str(e) of the error a fetcher can raise: a message, or "" for an error
\* raised without one.
FetchErrors == {"fetch error", ""}

\* The same call with a DataFetcher whose fetch_data raises, before or after
\* the scratch file was written: control goes to the except clause.
CollectFetchRaises ==
    /\ pc = "for"
    /\ i < Len(links)
    /\ \E wrote \in BOOLEAN :
          scratch' = [scratch EXCEPT ![i + 1] =
                        IF wrote THEN SaveTiktok(links[i + 1], @, "wrote") ELSE @]
    /\ \E message \in FetchErrors :
          /\ exc' = message
          /\ fetched' = Append(fetched, [link |-> links[i + 1], status |-> "raised",
                                         rows |-> <<>>, error |-> message])
    /\ pc' = "except"
    /\ log' = Append(log, Event("fetch", i + 1))
    /\ UNCHANGED <<saved, column, links, i, temp_data, call, all_data, results, files,
                   processed_data, sheet, sheet_id, ret, report>>

Outcome(index, link, status, error) ==
    [index |-> index, link |-> link, status |-> status, error |-> error]

\* CollectRecord with the error key left out of the Failed entry.
CollectRecord_NoErrorKey ==
    /\ pc = "record"
    /\ IF ~IsEmpty(temp_data)
       THEN /\ all_data' = Concat(all_data, StampIndex(temp_data, i + 1))
            /\ results' = Append(results, Outcome(i + 1, links[i + 1], "Success", NoField))
       ELSE /\ all_data' = all_data
            /\ results' = Append(results, Outcome(i + 1, links[i + 1], "Failed", NoField))
    /\ pc' = "cleanup"
    /\ temp_data' = EmptyFrame
    /\ call' = NoCall
    /\ UNCHANGED <<saved, column, links, i, exc, scratch, files, processed_data, sheet,
                   sheet_id, ret, report, fetched, log>>

\* if not temp_data.empty: stamp link_index, concat, record Success;
\* else: record Failed, "Empty data returned".
CollectRecord ==
    /\ pc = "record"
    /\ IF ~IsEmpty(temp_data)
       THEN /\ all_data' = Concat(all_data, StampIndex(temp_data, i + 1))
            /\ results' = Append(results, Outcome(i + 1, links[i + 1], "Success", NoField))
       ELSE /\ all_data' = all_data
            /\ results' = Append(results,
                    Outcome(i + 1, links[i + 1], "Failed", "Empty data returned"))
    /\ pc' = "cleanup"
    /\ temp_data' = EmptyFrame
    /\ call' = NoCall
    /\ UNCHANGED <<saved, column, links, i, exc, scratch, files, processed_data, sheet,
                   sheet_id, ret, report, fetched, log>>

\* if os.path.exists(temp_filename): os.remove(temp_filename); os.remove can
\* raise (the file is held open, the directory is read-only).
CollectCleanup ==
    /\ pc = "cleanup"
    /\ IF scratch[i + 1].exists
       THEN \E removed \in BOOLEAN :
               IF removed
               THEN /\ scratch' = [scratch EXCEPT ![i + 1] = NoFile]
                    /\ log' = Append(log, Event("remove", i + 1))
                    /\ pc' = "pace"
                    /\ exc' = exc
               ELSE /\ scratch' = scratch
                    /\ log' = log
                    /\ pc' = "except"
                    /\ exc' = "remove error"
       ELSE /\ pc' = "pace"
            /\ UNCHANGED <<scratch, log, exc>>
    /\ UNCHANGED <<saved, column, links, i, temp_data, call, all_data, results, files,
                   processed_data, sheet, sheet_id, ret, report, fetched>>

\* if i < len(links) - 1: time.sleep(5)
Sleep(history) ==
    IF i < Len(links) - 1 THEN Append(history, Event("sleep", i + 1)) ELSE history

\* CollectPace that also writes the outcome list so far after every link.
CollectPace_Checkpoint ==
    /\ pc = "pace"
    /\ log' = Sleep(Append(log, Event("summary", 0)))
    /\ files' = [files EXCEPT !["summary"] = [exists |-> TRUE, rows |-> results]]
    /\ i' = i + 1
    /\ pc' = "for"
    /\ UNCHANGED <<saved, column, links, temp_data, call, exc, all_data, results, scratch,
                   processed_data, sheet, sheet_id, ret, report, fetched>>

\* The pacing at the end of the try block, and the step to the next link.
CollectPace ==
    /\ pc = "pace"
    /\ log' = Sleep(log)
    /\ i' = i + 1
    /\ pc' = "for"
    /\ UNCHANGED <<saved, column, links, temp_data, call, exc, all_data, results, scratch,
                   files, processed_data, sheet, sheet_id, ret, report, fetched>>

\* CollectExcept with the loop abandoned at the first error.
CollectExcept_Break ==
    /\ pc = "except"
    /\ results' = Append(results, Outcome(i + 1, links[i + 1], "Failed", exc))
    /\ i' = Len(links)
    /\ pc' = "for"
    /\ exc' = ""
    /\ call' = NoCall
    /\ UNCHANGED <<saved, column, links, temp_data, all_data, scratch, files,
                   processed_data, sheet, sheet_id, ret, report, fetched, log>>

\* CollectExcept without the wait after an error.
CollectExcept_NoSleep ==
    /\ pc = "except"
    /\ results' = Append(results, Outcome(i + 1, links[i + 1], "Failed", exc))
    /\ i' = i + 1
    /\ pc' = "for"
    /\ exc' = ""
    /\ call' = NoCall
    /\ UNCHANGED <<saved, column, links, temp_data, all_data, scratch, files,
                   processed_data, sheet, sheet_id, ret, report, fetched, log>>

\* except Exception as e: record Failed with str(e), pace, next link.
CollectExcept ==
    /\ pc = "except"
    /\ results' = Append(results, Outcome(i + 1, links[i + 1], "Failed", exc))
    /\ log' = Sleep(log)
    /\ i' = i + 1
    /\ pc' = "for"
    /\ exc' = ""
    /\ call' = NoCall
    /\ UNCHANGED <<saved, column, links, temp_data, all_data, scratch, files,
                   processed_data, sheet, sheet_id, ret, report, fetched>>

\* ------------------------------------------------------------------- sinks
\* CsvStore without the `if df.empty` early return.
CsvStore_NoEmptyCheck(name, empty, wrote) ==
    IF wrote THEN [raised |-> FALSE, written |-> TRUE, path |-> <<OutputDir, name>>]
    ELSE [raised |-> TRUE, written |-> FALSE, path |-> NoPath]

\* CSVDataStorage.save_data: `if df.empty: return ""`; otherwise the path is
\* os.path.join(self.output_dir, filename), df.to_csv writes it (or raises:
\* disk, lock) and the path is returned.
CsvStore(name, empty, wrote) ==
    IF empty THEN [raised |-> FALSE, written |-> FALSE, path |-> NoPath]
    ELSE IF wrote THEN [raised |-> FALSE, written |-> TRUE, path |-> <<OutputDir, name>>]
    ELSE [raised |-> TRUE, written |-> FALSE, path |-> NoPath]

\* CSVDataStorage.save_data(df, filename) called at position pc, continuing at
\* `next`: an empty frame writes nothing; df.to_csv can raise (disk, lock),
\* and nothing in collect_data or main catches it.
CsvSaveData(name, rows, empty, next) ==
    \E wrote \in BOOLEAN :
       LET r == CsvStore(name, empty, wrote)
       IN  IF r.raised
           THEN /\ pc' = "crashed"
                /\ exc' = "to_csv error"
                /\ UNCHANGED <<files, log, saved>>
           ELSE /\ files' = IF r.written
                            THEN [files EXCEPT ![name] = [exists |-> TRUE, rows |-> rows]]
                            ELSE files
                /\ log' = IF r.written THEN Append(log, Event(name, 0)) ELSE log
                /\ saved' = r.path
                /\ pc' = next
                /\ exc' = exc

\* The loop is over.  if not all_data.empty: save the raw frame.
SaveRaw ==
    /\ pc = "for"
    /\ i >= Len(links)
    /\ IF ~IsEmpty(all_data)
       THEN CsvSaveData("all", all_data.rows, IsEmpty(all_data), "save_summary")
       ELSE /\ pc' = "save_summary"
            /\ UNCHANGED <<files, log, exc, saved>>
    /\ UNCHANGED <<column, links, i, temp_data, call, all_data, results, scratch,
                   processed_data, sheet, sheet_id, ret, report, fetched>>

\* SaveSummary guarded like the other writes (only when rows were collected).
SaveSummary_OnlyWithData ==
    /\ pc = "save_summary"
    /\ IF ~IsEmpty(all_data)
       THEN CsvSaveData("summary", results, results = <<>>, "process")
       ELSE /\ pc' = "process"
            /\ UNCHANGED <<files, log, exc, saved>>
    /\ UNCHANGED <<column, links, i, temp_data, call, all_data, results, scratch,
                   processed_data, sheet, sheet_id, ret, report, fetched>>

\* summary_df = pd.DataFrame(results); save it.  A frame built from an empty
\* list is empty.
SaveSummary ==
    /\ pc = "save_summary"
    /\ CsvSaveData("summary", results, results = <<>>, "process")
    /\ UNCHANGED <<column, links, i, temp_data, call, all_data, results, scratch,
                   processed_data, sheet, sheet_id, ret, report, fetched>>

\* Process without the `if not all_data.empty` guard.
Process_Unguarded ==
    /\ pc = "process"
    /\ processed_data' = ProcessData(all_data)
    /\ log' = Append(log, Event("process", 0))
    /\ pc' = "save_formatted"
    /\ UNCHANGED <<saved, column, links, i, temp_data, call, exc, all_data, results,
                   scratch, files, sheet, sheet_id, ret, report, fetched>>

\* if not all_data.empty: processed_data = process_data(all_data), and the
\* two writes that follow; otherwise straight to the return.
Process ==
    /\ pc = "process"
    /\ IF ~IsEmpty(all_data)
       THEN /\ processed_data' = ProcessData(all_data)
            /\ log' = Append(log, Event("process", 0))
            /\ pc' = "save_formatted"
       ELSE /\ pc' = "return"
            /\ UNCHANGED <<processed_data, log>>
    /\ UNCHANGED <<saved, column, links, i, temp_data, call, exc, all_data, results,
                   scratch, files, sheet, sheet_id, ret, report, fetched>>

SaveFormatted ==
    /\ pc = "save_formatted"
    /\ CsvSaveData("formatted", processed_data, processed_data = <<>>, "save_sheets")
    /\ UNCHANGED <<column, links, i, temp_data, call, all_data, results, scratch,
                   processed_data, sheet, sheet_id, ret, report, fetched>>

\* The remote calls of GoogleSheetsDataStorage.save_data, in order.
SheetSteps == <<"connect", "create", "insert_permission", "get_worksheet", "update">>
StepNo(step) == CHOOSE k \in 1..Len(SheetSteps) : SheetSteps[k] = step
\* The remote spreadsheet after the calls before `failAt` went through
\* (failAt = "none": all of them).
SheetAfter(rows, failAt) ==
    LET done(step) == failAt = "none" \/ StepNo(step) < StepNo(failAt)
    IN  [created |-> done("create"),
         public |-> done("insert_permission"),
         values |-> IF done("update") THEN rows ELSE <<>>]

\* SheetsSaveData without the except clause: a failing remote call raises.
SheetsSaveData_NoExcept(rows, failAt) ==
    IF rows = <<>>
    THEN [raised |-> FALSE, id |-> "", sheet |-> NoSheet, contacted |-> FALSE]
    ELSE [raised |-> failAt # "none",
          id |-> IF failAt = "none" THEN "spreadsheet_id" ELSE "",
          sheet |-> SheetAfter(rows, failAt),
          contacted |-> TRUE]

\* GoogleSheetsDataStorage.save_data(df, sheet_name): "" for an empty frame;
\* otherwise the remote calls inside try, and `except Exception: return ""`.
SheetsSaveData(rows, failAt) ==
    IF rows = <<>>
    THEN [raised |-> FALSE, id |-> "", sheet |-> NoSheet, contacted |-> FALSE]
    ELSE [raised |-> FALSE,
          id |-> IF failAt = "none" THEN "spreadsheet_id" ELSE "",
          sheet |-> SheetAfter(rows, failAt),
          contacted |-> TRUE]

\* self.sheets_storage.save_data(processed_data, sheet_name); an exception
\* leaving it would leave collect_data and main.
SaveSheets ==
    /\ pc = "save_sheets"
    /\ \E failAt \in Range(SheetSteps) \cup {"none"} :
          LET r == SheetsSaveData(processed_data, failAt)
          IN  /\ sheet' = r.sheet
              /\ sheet_id' = r.id
              /\ log' = IF r.contacted
                        THEN Append(log, Event("sheets", IF failAt = "none" THEN 0
                                                         ELSE StepNo(failAt)))
                        ELSE log
              /\ IF r.raised
                 THEN pc' = "crashed" /\ exc' = "sheets error"
                 ELSE pc' = "return" /\ exc' = exc
    /\ UNCHANGED <<saved, column, links, i, temp_data, call, all_data, results, scratch,
                   files, processed_data, ret, report, fetched>>

\* return all_data, results
CollectReturn ==
    /\ pc = "return"
    /\ ret' = [returned |-> TRUE, all_data |-> all_data, results |-> results]
    /\ pc' = "report"
    /\ UNCHANGED <<saved, column, links, i, temp_data, call, exc, all_data, results,
                   scratch, files, processed_data, sheet, sheet_id, report, fetched, log>>

\* -------------------------------------------------------------------- main
Successes(rs) == Cardinality({k \in 1..Len(rs) : rs[k].status = "Success"})

\* success_count = sum(...); print(... success_count out of len(results) ...)
MainReport ==
    /\ pc = "report"
    /\ report' = [printed |-> TRUE, success |-> Successes(ret.results),
                  total |-> Len(ret.results)]
    /\ pc' = "done"
    /\ UNCHANGED <<saved, column, links, i, temp_data, call, exc, all_data, results,
                   scratch, files, processed_data, sheet, sheet_id, ret, fetched, log>>

Next ==
    \/ GetLinks
    \/ CollectFetch
    \/ CollectFetchRaises
    \/ CollectRecord
    \/ CollectCleanup
    \/ CollectPace
    \/ CollectExcept
    \/ SaveRaw
    \/ SaveSummary
    \/ Process
    \/ SaveFormatted
    \/ SaveSheets
    \/ CollectReturn
    \/ MainReport

Spec == Init /\ [][Next]_vars

\* The run is one thread that always takes its next step until it ends.
FairSpec == Spec /\ WF_vars(Next)

\* ================================================================ claims
\* The run has left the loop of collect_data.
LoopDone == pc \in {"save_summary", "process", "save_formatted", "save_sheets",
                    "return", "report", "done"}
               \/ (pc = "for" /\ i >= Len(links))
               \/ (pc = "crashed" /\ exc = "to_csv error")
\* The links whose processing is over (the loop has moved past them).
Past == 1..(IF i < Len(links) THEN i ELSE Len(links))
Indices(rs, status) == {rs[k].index : k \in {j \in 1..Len(rs) : rs[j].status = status}}

\* C1: the outcome list collect_data returns has exactly one entry per link,
\* in link order, the k-th entry having index k and the k-th link, whatever
\* the fetches and the scratch cleanup did.
C1_OneOutcomePerLink ==
    ret.returned =>
        /\ Len(ret.results) = Len(links)
        /\ \A k \in 1..Len(ret.results) :
              ret.results[k].index = k /\ ret.results[k].link = links[k]

\* C2: the fetcher is called exactly once per occurrence of a link, in link
\* order (one call per link the loop has reached, all of them at the end),
\* and a link whose fetch raised or returned an empty frame has, once the
\* loop has moved past it, a Failed outcome and no Success outcome.
C2_FetchOncePerLinkInOrder ==
    /\ Len(fetched) = IF pc \in {"record", "cleanup", "pace", "except"} THEN i + 1 ELSE i
    /\ Len(fetched) <= Len(links)
    /\ \A k \in 1..Len(fetched) : fetched[k].link = links[k]
    /\ LoopDone => Len(fetched) = Len(links)
    /\ \A k \in Past :
          fetched[k].status # "rows" =>
              /\ \E j \in 1..Len(results) :
                    /\ results[j].index = k
                    /\ results[j].link = links[k]
                    /\ results[j].status = "Failed"
              /\ k \notin Indices(results, "Success")

\* C2 witness: a duplicated link whose first fetch raised and whose second
\* fetch, made all the same, returned rows; the run has returned.
C2_Witness ==
    /\ ret.returned
    /\ Len(links) = 2
    /\ links[1] = links[2]
    /\ fetched[1].status = "raised"
    /\ fetched[2].status = "rows"
    /\ ret.results[1].status = "Failed"

\* The rows a fetch returned, stamped with the index of its link.
RECURSIVE StampedRows(_)
StampedRows(n) ==
    IF n = 0 THEN <<>>
    ELSE StampedRows(n - 1)
         \o [k \in 1..Len(fetched[n].rows) |-> [fetched[n].rows[k] EXCEPT !.link_index = n]]

\* C3: when collect_data returns, the raw table holds exactly the rows of the
\* fetches that returned a non-empty frame, in link order, each stamped with
\* its link's index; the link_index values in the table are the indices with
\* a Success outcome, and a link with a Failed outcome has no row.
C3_TableMatchesSuccesses ==
    ret.returned =>
        LET inTable == {ret.all_data.rows[k].link_index : k \in 1..Len(ret.all_data.rows)}
        IN  /\ ret.all_data.rows = StampedRows(Len(fetched))
            /\ inTable = Indices(ret.results, "Success")
            /\ inTable \cap Indices(ret.results, "Failed") = {}

\* The fetches and waits of the run, in the order they happened.
PaceLog == SelectSeq(log, LAMBDA e : e.op \in {"fetch", "sleep"})

\* C4: fetches and pacing waits alternate, starting with the fetch of link 1:
\* the wait after link k comes between the fetch of link k and the fetch of
\* link k+1; with N >= 1 links there are N-1 waits, none after the last link.
C4_OneWaitBetweenFetches ==
    /\ \A p \in 1..Len(PaceLog) :
          PaceLog[p] = IF p % 2 = 1 THEN Event("fetch", (p + 1) \div 2)
                       ELSE Event("sleep", p \div 2)
    /\ (pc = "for" /\ i < Len(links)) => Len(PaceLog) = 2 * i
    /\ LoopDone => Len(PaceLog) = IF Len(links) = 0 THEN 0 ELSE 2 * Len(links) - 1

\* C4 witness: two links, the first fetch raised, the loop is over and there
\* was exactly one wait, between the two fetches.
C4_Witness ==
    /\ LoopDone
    /\ Len(links) = 2
    /\ fetched[1].status = "raised"
    /\ PaceLog = <<Event("fetch", 1), Event("sleep", 1), Event("fetch", 2)>>

\* C5: once the loop has moved past link k, the scratch file of link k does
\* not exist.
C5_ScratchRemoved ==
    pc # "get_links" => \A k \in Past : ~scratch[k].exists

HasEvent(op) == \E p \in 1..Len(log) : log[p].op = op

\* C6 (as claimed): in every completed run of collect_data, a run in which
\* every link failed and a run over zero links included, the summary file
\* has been written.
C6_SummaryAlwaysWritten ==
    ret.returned => files["summary"].exists

\* C6 (amended): in every completed run over at least one link, a run in
\* which every link failed included, the summary file has been written and
\* holds the outcome list; in a completed run over zero links the outcome
\* list is empty and the file sink writes no summary file.
C6_SummaryWrittenUnlessNoLinks ==
    ret.returned =>
        /\ files["summary"].exists <=> Len(links) >= 1
        /\ files["summary"].exists => files["summary"].rows = ret.results

\* C6 witness: a completed run over links that all failed, with the summary
\* file written.
C6_Witness ==
    /\ ret.returned
    /\ Len(links) >= 1
    /\ Indices(ret.results, "Success") = {}
    /\ files["summary"].exists

\* C7: the raw-table write, the normalization, the normalized-table write
\* and the spreadsheet write never happen while the raw table is empty, and
\* when collect_data returns each of the four has happened exactly if the
\* raw table is non-empty.
C7_OutputsIffData ==
    LET happened == <<files["all"].exists, HasEvent("process"),
                      files["formatted"].exists, HasEvent("sheets")>>
    IN  /\ \A n \in 1..4 : happened[n] => ~IsEmpty(all_data)
        /\ ret.returned => \A n \in 1..4 : happened[n] <=> ~IsEmpty(ret.all_data)

\* C7 witness: a completed run in which every link failed: the summary is
\* written and none of the four has happened.
C7_Witness ==
    /\ ret.returned
    /\ Len(links) >= 1
    /\ IsEmpty(ret.all_data)
    /\ files["summary"].exists
    /\ ~files["all"].exists /\ ~files["formatted"].exists
    /\ ~HasEvent("process") /\ ~HasEvent("sheets")

\* C8: a step of the spreadsheet sink in which a remote call failed returns
\* the empty string and raises nothing (control reaches the return of
\* collect_data), and leaves the written files, the raw table and the
\* outcome list as they were; collect_data then returns that table and list.
C8_SheetFailureContained ==
    /\ [][pc = "save_sheets" =>
            /\ pc' = "return"
            /\ files' = files /\ all_data' = all_data /\ results' = results
            /\ (log'[Len(log')].op = "sheets" /\ log'[Len(log')].k # 0) => sheet_id' = ""]_vars
    /\ [][pc = "return" =>
            ret' = [returned |-> TRUE, all_data |-> all_data, results |-> results]]_vars

\* C8 witness: creating the spreadsheet failed; collect_data has returned,
\* the sink returned "", and the three files are in place.
C8_Witness ==
    /\ ret.returned
    /\ \E p \in 1..Len(log) : log[p] = Event("sheets", StepNo("create"))
    /\ sheet_id = ""
    /\ \A n \in FileNames : files[n].exists
    /\ files["all"].rows = ret.all_data.rows

\* C9: once the link source has returned a link list, nothing terminates
\* the run before the final report: no per-link failure and no failure of
\* one output destination (file sink or spreadsheet sink) ends it.
C9_RunReachesReport ==
    pc = "crashed" => exc = "get_links error"

\* C10: fetch_data never raises; when the scrape raised, wrote nothing, or
\* the scratch file could not be read, it returns an empty frame; every row
\* of a frame it returns carries source_link equal to the link passed in.
C10_FetchNeverRaisesEmptyOnFailure ==
    call # NoCall =>
        /\ ~call.raised
        /\ (call.scrape \in {"raise", "nothing"} \/ ~call.readOk) => IsEmpty(temp_data)
        /\ \A k \in 1..Len(temp_data.rows) : temp_data.rows[k].source_link = call.link

\* The error strings a Failed entry of link k may carry, given what the
\* fetch of link k did: the message of the error the fetch raised; "Empty
\* data returned" for an empty frame; in both non-raising cases also the
\* message of an error the cleanup raised afterwards.
ErrorsFor(k) ==
    CASE fetched[k].status = "raised" -> {fetched[k].error}
      [] fetched[k].status = "empty" -> {"Empty data returned", "remove error"}
      [] OTHER -> {"remove error"}

\* C11 (as claimed): every Failed entry of the returned outcome list carries
\* a non-empty error description, "Empty data returned" or the caught
\* error's message, and every Success entry carries no error field.
C11_FailedHasNonEmptyError ==
    ret.returned =>
        \A j \in 1..Len(ret.results) :
            LET r == ret.results[j]
            IN  IF r.status = "Success" THEN r.error = NoField
                ELSE r.error \notin {NoField, ""} /\ r.error \in ErrorsFor(r.index)

\* C11 (amended): every Failed entry carries an error field, "Empty data
\* returned" when it records an empty fetch and str(e) of the caught error
\* otherwise (which is "" for an error raised without a message); a link
\* whose fetch returned an empty frame has an entry with exactly "Empty data
\* returned"; every Success entry carries no error field.
C11_FailedHasErrorField ==
    ret.returned =>
        /\ \A j \in 1..Len(ret.results) :
              LET r == ret.results[j]
              IN  IF r.status = "Success" THEN r.error = NoField
                  ELSE r.error # NoField /\ r.error \in ErrorsFor(r.index)
        /\ \A k \in 1..Len(fetched) :
              fetched[k].status = "empty" =>
                  \E j \in 1..Len(ret.results) :
                      ret.results[j] = Outcome(k, links[k], "Failed", "Empty data returned")

\* C11 witness: a returned list with a Failed entry for an empty fetch of
\* one link and a Success entry for the other.
C11_Witness ==
    /\ ret.returned
    /\ \E a, b \in 1..Len(ret.results) :
          /\ ret.results[a].status = "Failed"
          /\ ret.results[a].error = "Empty data returned"
          /\ ret.results[b].status = "Success"
          /\ ret.results[b].error = NoField
          /\ ret.results[a].index # ret.results[b].index

\* ============================================ normalizer and sinks alone
\* The field sets a fetch can come back with: the one of the pipeline runs,
\* one with only lower-priority names, one with two names per logical field,
\* and one with none of the candidate names.
ShapeLater == {"stats_playCount", "play_count", "author_uniqueId", "author_nickname",
               "authorStats_followerCount"}
ShapeBoth == {"video_playcount", "stats_playCount", "author_username", "author_uniqueId",
              "author_followercount", "authorStats_followerCount"}
ShapeBare == {}
Shapes == {PipelineShape, ShapeLater, ShapeBoth, ShapeBare}

\* The frame a successful fetch of `link` returns when the scraper wrote the
\* fields of `shape`.
FetchedFrame(link, shape) ==
    StampSource([cols |-> shape, rows |-> <<ScrapedRow(link, shape)>>], link)

\* The raw table is built as collect_data builds it, from frames of any shape.
InitTable ==
    /\ pc = "table"
    /\ column = <<>>
    /\ links = <<>>
    /\ i = 0
    /\ temp_data = EmptyFrame
    /\ call = NoCall
    /\ exc = ""
    /\ all_data = EmptyFrame
    /\ results = <<>>
    /\ scratch = [k \in Paths |-> NoFile]
    /\ files = [n \in FileNames |-> NotWritten]
    /\ saved = NotCalled
    /\ processed_data = <<>>
    /\ sheet = NoSheet
    /\ sheet_id = ""
    /\ ret = NoReturn
    /\ report = NoReport
    /\ fetched = <<>>
    /\ log = <<>>

\* temp_data['link_index'] = i+1; all_data = pd.concat([all_data, temp_data])
TableAppend ==
    /\ pc = "table"
    /\ Len(fetched) < MaxRows
    /\ \E link \in {LinkA, LinkB}, shape \in Shapes :
          LET frame == FetchedFrame(link, shape)
          IN  /\ all_data' = Concat(all_data, StampIndex(frame, Len(fetched) + 1))
              /\ fetched' = Append(fetched, [link |-> link, status |-> "rows",
                                             rows |-> frame.rows, error |-> ""])
    /\ UNCHANGED <<pc, column, links, i, temp_data, call, exc, results, scratch, files,
                   saved, processed_data, sheet, sheet_id, ret, report, log>>

\* processed_data = process_data(table), for any table, the empty one included;
\* the two sinks are then given the result.
TableProcess ==
    /\ pc = "table"
    /\ processed_data' = ProcessData(all_data)
    /\ pc' = "save_formatted"
    /\ UNCHANGED <<column, links, i, temp_data, call, exc, all_data, results, scratch,
                   files, saved, sheet, sheet_id, ret, report, fetched, log>>

NextTable ==
    \/ TableAppend
    \/ TableProcess
    \/ SaveFormatted
    \/ SaveSheets

SpecTable == InitTable /\ [][NextTable]_vars

\* process_data has run on the table.
Processed == pc \in {"save_formatted", "save_sheets", "return", "crashed"}
\* The k-th frame's row carried a value under field c.
Carries(k, c) == fetched[k].rows[1].f[c] # Missing(c)
CarriedOf(k, candidates) == {n \in 1..Len(candidates) : Carries(k, candidates[n])}
Lowest(S) == CHOOSE n \in S : \A m \in S : n <= m

\* C12: process_data returns as many rows as the raw table has, in input
\* order, with STT exactly 1..N and 'Link Video' of row k the source_link of
\* input row k; for an empty table it returns an empty table.
C12_RowPerRowInOrder ==
    Processed =>
        /\ Len(processed_data) = Len(all_data.rows)
        /\ \A k \in 1..Len(processed_data) :
              /\ processed_data[k].STT = k
              /\ processed_data[k].LinkVideo = all_data.rows[k].source_link
              /\ processed_data[k].LinkVideo = fetched[k].link

\* C12 witness: two rows of different links normalized, in order.
C12_Witness ==
    /\ Processed
    /\ Len(processed_data) = 2
    /\ processed_data[1].LinkVideo = LinkB
    /\ processed_data[2].LinkVideo = LinkA
    /\ processed_data[2].STT = 2

\* C13: a row that carries several candidate fields of one logical field
\* gets, for that field, the value of the first of them in priority order.
C13_FirstCarriedCandidateWins ==
    Processed =>
        \A k \in 1..Len(processed_data) :
            LET first(cands) == fetched[k].rows[1].f[cands[Lowest(CarriedOf(k, cands))]]
                several(cands) == Cardinality(CarriedOf(k, cands)) >= 2
            IN  /\ several(ViewCols) => processed_data[k].views = first(ViewCols)
                /\ several(AuthorCols) => processed_data[k].author = first(AuthorCols)
                /\ several(FollowerCols) => processed_data[k].followers = first(FollowerCols)

\* C14: a row that carries none of the candidate fields of a logical field
\* gets that field's default (0, "Unknown", 0), whatever fields the other
\* rows of the table carry.
C14_DefaultWhenNoneCarried ==
    Processed =>
        \A k \in 1..Len(processed_data) :
            /\ CarriedOf(k, ViewCols) = {} => processed_data[k].views = 0
            /\ CarriedOf(k, AuthorCols) = {} => processed_data[k].author = "Unknown"
            /\ CarriedOf(k, FollowerCols) = {} => processed_data[k].followers = 0

\* C15: save_data on an empty table returns "" and has no external effect:
\* the file sink writes no file, the spreadsheet sink contacts and creates
\* nothing; on a non-empty table the file sink writes the table under the
\* output directory and returns that path.
C15_EmptyTableNoEffect ==
    /\ (pc \in {"save_sheets", "return"} /\ processed_data = <<>>) =>
          /\ saved = NoPath
          /\ \A n \in FileNames : ~files[n].exists
    /\ (pc = "return" /\ processed_data = <<>>) =>
          /\ sheet_id = ""
          /\ sheet = NoSheet
          /\ ~HasEvent("sheets")
    /\ (pc \in {"save_sheets", "return"} /\ processed_data # <<>>) =>
          /\ files["formatted"] = [exists |-> TRUE, rows |-> processed_data]
          /\ saved = <<OutputDir, "formatted">>

\* C15 witness: both sinks were given the empty table.
C15_Witness ==
    /\ pc = "return"
    /\ processed_data = <<>>
    /\ saved = NoPath
    /\ sheet_id = ""

\* ======================================================== claims, continued
\* The positions of the column cells that contain the domain substring.
Kept(values) == {j \in 1..Len(values) : ContainsDomain(values[j])}
\* The n-th smallest element of a set of numbers.
Nth(S, n) == CHOOSE j \in S : Cardinality({m \in S : m < j}) = n - 1

\* C16: get_links returns exactly the cells that contain 'tiktok.com', in
\* row order, duplicates kept, the other cells dropped; collect_data fetches
\* the links and numbers the outcomes in the order of that sequence.
C16_LinksFilteredInOrder ==
    /\ [][(pc = "get_links" /\ pc' = "for") =>
            /\ Len(links') = Cardinality(Kept(column))
            /\ \A k \in 1..Len(links') : links'[k] = column[Nth(Kept(column), k)]]_vars
    /\ [](/\ \A k \in 1..Len(fetched) : fetched[k].link = links[k]
          /\ \A j \in 1..Len(results) :
                /\ results[j].index \in 1..Len(links)
                /\ results[j].link = links[results[j].index]
                /\ j > 1 => results[j - 1].index <= results[j].index)

\* C16 witness: two cells were read, one was dropped, and the link kept was
\* fetched and recorded as link 1.
C16_Witness ==
    /\ Len(log) >= 1
    /\ log[1] = Event("get_links", 2)
    /\ links = <<LinkB>>
    /\ Len(fetched) = 1
    /\ Len(results) >= 1
    /\ results[1].index = 1

NothingDone ==
    /\ fetched = <<>>
    /\ results = <<>>
    /\ log = <<>>
    /\ files = [n \in FileNames |-> NotWritten]
    /\ saved = NotCalled
    /\ sheet = NoSheet
    /\ ~ret.returned
    /\ ~report.printed

\* C17: get_links runs before any work, and when it raises the error leaves
\* collect_data: the run ends there with no fetch attempted, no outcome
\* recorded and no sink written.
C17_LinkSourceFailureFatal ==
    /\ pc = "get_links" => NothingDone
    /\ exc = "get_links error" => (pc = "crashed" /\ NothingDone)

\* C17 witness: the lookup raised and the run ended.
C17_Witness ==
    /\ pc = "crashed"
    /\ exc = "get_links error"
    /\ column = <<>>

\* The sink writes of the run, in the order they happened.
SinkOps == <<"all", "summary", "formatted", "sheets">>
SinkLog == SelectSeq(log, LAMBDA e : e.op \in Range(SinkOps))
Rank(op) == CHOOSE n \in 1..Len(SinkOps) : SinkOps[n] = op

\* C18: nothing is written to a sink before every link has an outcome; the
\* writes happen in the order raw file, summary file, normalized file,
\* spreadsheet; after the spreadsheet write only the return follows; a run
\* still inside the loop has written nothing.
C18_OutputAfterLoopInOrder ==
    LET written == SinkLog # <<>> \/ sheet # NoSheet \/ \E n \in FileNames : files[n].exists
    IN  /\ written => (LoopDone /\ \A k \in 1..Len(links) :
                                      \E j \in 1..Len(results) : results[j].index = k)
        /\ \A p, q \in 1..Len(SinkLog) :
              p < q => Rank(SinkLog[p].op) < Rank(SinkLog[q].op)
        /\ HasEvent("sheets") => pc \in {"return", "report", "done"}
        /\ files["formatted"].exists => (files["summary"].exists /\ files["all"].exists)

\* C18 witness: all four writes happened, in order.
C18_Witness ==
    /\ pc = "return"
    /\ [p \in 1..Len(SinkLog) |-> SinkLog[p].op] = SinkOps

\* C19: a scratch file left at link k's path by an earlier run changes
\* nothing: the fetch returns what it would return with no file at the path
\* (so a scrape that produced nothing gives an empty frame and a Failed
\* outcome), and no row of the earlier run enters the raw table.
C19_OrphanHarmless ==
    /\ call # NoCall =>
          temp_data = FetchData(call.link, NoFile,
                                IF call.scrape = "append" THEN "wrote" ELSE call.scrape,
                                call.readOk).data
    /\ \A k \in 1..Len(all_data.rows) : all_data.rows[k].vid # OldVideo

\* ------------------------------------------- the single-pass variant
\* process_tiktok_links(links) is entered: any sequence of links, the scratch
\* directory clean or holding a file of an earlier run.
InitSinglePass ==
    /\ pc = "single_for"
    /\ column = <<>>
    /\ links \in SeqsUpTo({LinkA, LinkB}, MaxColumn)
    /\ i = 0
    /\ temp_data = EmptyFrame
    /\ call = NoCall
    /\ exc = ""
    /\ all_data = EmptyFrame
    /\ results = <<>>
    /\ scratch \in InitialScratch
    /\ files = [n \in FileNames |-> NotWritten]
    /\ saved = NotCalled
    /\ processed_data = <<>>
    /\ sheet = NoSheet
    /\ sheet_id = ""
    /\ ret = NoReturn
    /\ report = NoReport
    /\ fetched = <<>>
    /\ log = <<>>

\* One pass of the loop body for the n-th link: the try block statement by
\* statement, and the except clause wherever an exception leaves it.  `read`
\* is what pd.read_csv returned ("raised" when it did not return).
SinglePassBody(link, n, file, table, scrape, readOk, removed) ==
    IF scrape = "raise"
    THEN [table |-> table, file |-> file, read |-> "raised", rows |-> <<>>,
          entry |-> Outcome(n, link, "Failed", "save_tiktok error")]
    ELSE LET written == SaveTiktok(link, file, scrape)
         IN  IF ~written.exists \/ ~readOk
             THEN [table |-> table, file |-> written, read |-> "raised", rows |-> <<>>,
                   entry |-> Outcome(n, link, "Failed", "read_csv error")]
             ELSE LET frame == [cols |-> written.cols, rows |-> written.rows]
                      temp == StampIndex(StampSource(frame, link), n)
                      merged == Concat(table, temp)
                      status == IF temp.rows = <<>> THEN "empty" ELSE "rows"
                  IN  IF ~removed
                      THEN [table |-> merged, file |-> written, read |-> status,
                            rows |-> temp.rows,
                            entry |-> Outcome(n, link, "Failed", "remove error")]
                      ELSE [table |-> merged, file |-> NoFile, read |-> status,
                            rows |-> temp.rows,
                            entry |-> Outcome(n, link, "Success", NoField)]

\* for i, link in enumerate(links): try ... except ...
SinglePassLink ==
    /\ pc = "single_for"
    /\ i < Len(links)
    /\ \E scrape \in ScrapeOutcomes, readOk \in BOOLEAN, removed \in BOOLEAN :
          /\ scrape = "append" => scratch[i + 1].exists
          /\ LET r == SinglePassBody(links[i + 1], i + 1, scratch[i + 1], all_data,
                                     scrape, readOk, removed)
             IN  /\ all_data' = r.table
                 /\ scratch' = [scratch EXCEPT ![i + 1] = r.file]
                 /\ results' = Append(results, r.entry)
                 /\ fetched' = Append(fetched,
                        [link |-> links[i + 1], status |-> r.read, rows |-> r.rows,
                         error |-> IF r.entry.status = "Failed" THEN r.entry.error ELSE ""])
    /\ i' = i + 1
    /\ log' = Append(log, Event("fetch", i + 1))
    /\ UNCHANGED <<pc, column, links, temp_data, call, exc, files, saved, processed_data,
                   sheet, sheet_id, ret, report>>

\* if not all_data.empty: all_data.to_csv(combined_filename); to_csv can
\* raise, and nothing catches it.
SinglePassSaveAll ==
    /\ pc = "single_for"
    /\ i >= Len(links)
    /\ IF ~IsEmpty(all_data)
       THEN \E wrote \in BOOLEAN :
               IF wrote
               THEN /\ files' = [files EXCEPT !["all"] =
                                    [exists |-> TRUE, rows |-> all_data.rows]]
                    /\ log' = Append(log, Event("all", 0))
                    /\ pc' = "single_summary"
                    /\ exc' = exc
               ELSE /\ pc' = "crashed"
                    /\ exc' = "to_csv error"
                    /\ UNCHANGED <<files, log>>
       ELSE /\ pc' = "single_summary"
            /\ UNCHANGED <<files, log, exc>>
    /\ UNCHANGED <<column, links, i, temp_data, call, all_data, results, scratch, saved,
                   processed_data, sheet, sheet_id, ret, report, fetched>>

\* summary_df = pd.DataFrame(results); summary_df.to_csv(...): written for
\* any result list, the empty one included.
SinglePassSummary ==
    /\ pc = "single_summary"
    /\ \E wrote \in BOOLEAN :
          IF wrote
          THEN /\ files' = [files EXCEPT !["summary"] = [exists |-> TRUE, rows |-> results]]
               /\ log' = Append(log, Event("summary", 0))
               /\ pc' = "single_return"
               /\ exc' = exc
          ELSE /\ pc' = "crashed"
               /\ exc' = "to_csv error"
               /\ UNCHANGED <<files, log>>
    /\ UNCHANGED <<column, links, i, temp_data, call, all_data, results, scratch, saved,
                   processed_data, sheet, sheet_id, ret, report, fetched>>

\* return results, combined_filename
SinglePassReturn ==
    /\ pc = "single_return"
    /\ ret' = [returned |-> TRUE, all_data |-> EmptyFrame, results |-> results]
    /\ saved' = <<OutputDir, "all">>
    /\ pc' = "single_report"
    /\ UNCHANGED <<column, links, i, temp_data, call, exc, all_data, results, scratch,
                   files, processed_data, sheet, sheet_id, report, fetched, log>>

\* main: success_count = sum(...); print(... success_count out of len(links) ...)
SinglePassReport ==
    /\ pc = "single_report"
    /\ report' = [printed |-> TRUE, success |-> Successes(ret.results),
                  total |-> Len(links)]
    /\ pc' = "done"
    /\ UNCHANGED <<saved, column, links, i, temp_data, call, exc, all_data, results,
                   scratch, files, processed_data, sheet, sheet_id, ret, fetched, log>>

NextSinglePass ==
    \/ SinglePassLink
    \/ SinglePassSaveAll
    \/ SinglePassSummary
    \/ SinglePassReturn
    \/ SinglePassReport

SpecSinglePass == InitSinglePass /\ [][NextSinglePass]_vars

\* The rows of the combined table that carry link index n.
RowsOf(n) == SelectSeq(all_data.rows, LAMBDA row : row.link_index = n)

\* C20: in process_tiktok_links, whatever fails within a link's processing
\* (scrape, scratch read, scratch delete), the result list has exactly one
\* entry per processed link, in link order; the rows read for link k are in
\* the combined table when its entry is Success and no row of link k is in
\* the table when its entry is Failed; a link recorded Success has had its
\* scratch file removed.
C20_SinglePassOutcomes ==
    /\ Len(results) = i
    /\ i <= Len(links)
    /\ pc # "single_for" => Len(results) = Len(links)
    /\ \A k \in 1..Len(results) :
          /\ results[k].index = k
          /\ results[k].link = links[k]
          /\ results[k].status \in {"Success", "Failed"}
          /\ results[k].status = "Success" =>
                (RowsOf(k) = fetched[k].rows /\ ~scratch[k].exists)
          /\ results[k].status = "Failed" => RowsOf(k) = <<>>

====
